---- MODULE Spec2Model ----
(***************************************************************************)
(* Model of the drone-lifecycle session orchestrator of                    *)
(* radio-telemetry-tracker-drone-gcs:                                      *)
(*   comms/state_machine.py        DroneStateMachine                       *)
(*   comms/communication_bridge.py CommunicationBridge                     *)
(*                                                                         *)
(* Every slot of the bridge, every timer callback and every response       *)
(* callback runs to completion on the Qt event loop, so each is one atomic *)
(* action.  QTimer.singleShot deadlines cannot be cancelled: an armed      *)
(* timer stays pending until it fires.                                     *)
(*                                                                         *)
(* The members of DroneState are the names communication_bridge.py uses    *)
(* together with the names state_machine.py declares; the state machine's  *)
(* behaviour (initial state, transition_to) is that of state_machine.py.   *)
(* state_machine.py defines no register_timeout_handler and nothing calls  *)
(* the four timeout handlers _setup_state_handlers passes to it, so they   *)
(* are no part of the state.                                               *)
(*                                                                         *)
(* The families of behaviours that are checked:                            *)
(*   Spec           the bridge from its construction                       *)
(*   SpecConnected  the bridge from the connected state                    *)
(*   SpecTimers     the bridge from its construction, the GUI passing      *)
(*                  different acknowledgement settings                     *)
(*   SpecDeadlines  the bridge from its construction, every armed          *)
(*                  deadline elapsing in the end                           *)
(*   SMSpec         a DroneStateMachine of its own, driven by a client     *)
(*                  that registers handlers and requests transitions       *)
(*                                                                         *)
(* DroneCommsService (comms/drone_comms_service.py) is not among the       *)
(* sources: its response registry is modelled from the specification       *)
(* (one slot per response kind, "register once", "unregister").            *)
(***************************************************************************)
EXTENDS Integers, Sequences, FiniteSets, TLC

\* Number of slot calls the GUI makes in one behaviour.
MaxCalls == 3

\* Number of slot calls the GUI makes after the bridge has connected, in the
\* behaviours that start from the connected bridge.
MaxMoreCalls == 2

\* Number of slot calls the GUI makes in the behaviours in which it passes
\* different acknowledgement settings.
MaxTimedCalls == 3

\* Number of slot calls the GUI makes in the behaviours in which every armed
\* deadline elapses.
MaxDeadlineCalls == 2

\* ------------------------------------------------------------------------
\* Vocabulary
\* ------------------------------------------------------------------------

\* DroneState: members declared in state_machine.py and members referenced
\* by communication_bridge.py.
DroneState ==
    { "DISCONNECTED", "CONNECTING", "CONFIGURING", "READY", "RUNNING", "ERROR",
      "RADIO_CONFIG_INPUT", "RADIO_CONFIG_WAITING",
      "PING_FINDER_CONFIG_INPUT", "PING_FINDER_CONFIG_WAITING",
      "START_INPUT", "START_WAITING", "STOP_INPUT", "STOP_WAITING" }

\* The five request phases of the bridge (one response flag each).
Phases == {"sync", "config", "start", "stop", "disconnect"}

\* The phases whose deadline reports <phase>_timeout.
SendPhases == {"sync", "config", "start", "stop"}

\* The phases sent with send_config_request/send_start_request/send_stop_request.
RequestPhases == {"config", "start", "stop"}

\* Response kinds of the transport; disconnect() sends a stop request.
Kinds == {"sync", "config", "start", "stop"}

KindOf(p) == IF p = "disconnect" THEN "stop" ELSE p

\* DroneStateMachine.__init__: the state of a newly constructed machine.
ConstructedState == "DISCONNECTED"

\* The ack_timeout (seconds) and max_retries of the config dictionaries the
\* GUI passes to initialize_comms.
DefaultConfig == [ack_timeout |-> 1, max_retries |-> 3]

Configs == {DefaultConfig, [ack_timeout |-> 2, max_retries |-> 1]}

\* There is no session whose ack_timeout and max_retries could be read.
NoConfig == [ack_timeout |-> 0, max_retries |-> 0]

\* A registry slot holds the phase whose _on_<phase>_response is registered.
NoHandler == "none"

\* transition_to called without a StateTransition.
NoTransition == "none"

\* Signal names.
Success(p) == CASE p = "sync" -> "sync_success"
                [] p = "config" -> "config_success"
                [] p = "start" -> "start_success"
                [] p = "stop" -> "stop_success"
                [] p = "disconnect" -> "disconnect_success"

Failure(p) == CASE p = "sync" -> "sync_failure"
                [] p = "config" -> "config_failure"
                [] p = "start" -> "start_failure"
                [] p = "stop" -> "stop_failure"
                [] p = "disconnect" -> "disconnect_failure"

Timeout(p) == CASE p = "sync" -> "sync_timeout"
                [] p = "config" -> "config_timeout"
                [] p = "start" -> "start_timeout"
                [] p = "stop" -> "stop_timeout"

\* Number of occurrences of signal s in the sequence sig.
Count(sig, s) == Cardinality({i \in DOMAIN sig : sig[i] = s})

VARIABLES
    current_state,      \* DroneStateMachine._current_state
    transition_handlers,\* DroneStateMachine._transition_handlers
    error_handlers,     \* DroneStateMachine._error_handlers
    comms_service,      \* CommunicationBridge._comms_service is not None
    session_started,    \* start() returned on that session, stop() not called
    orphaned_sessions,  \* started sessions no longer referenced, never stopped
    session_config,     \* ack_timeout and max_retries of the session
    response_received,  \* the five _<phase>_response_received flags
    handlers,           \* response registry of the session: kind -> callback
    listeners,          \* gps / ping / loc_est / error handlers of the session:
                        \* how many times each callback is registered
    timers,             \* pending QTimer.singleShot deadlines per phase
    stale_timers,       \* of these, the deadlines of requests that concluded or
                        \* were cancelled before the phase was sent again
    armed,              \* deadlines armed by the last step: phase and milliseconds
    inflight,           \* requests sent on the session, response not yet delivered
    emitted,            \* signals emitted by the last step, in order
    error_msgs,         \* messages carried by the state_error signals among them
    invoked,            \* state-machine handlers called by the last step, in order
    last,               \* the last step: operation, phase, argument or outcome
    concl,              \* how the latest request of each phase stands
    unanswered,         \* send calls minus outcome notifications, per phase
    sent_in,            \* state of the machine when the latest request was sent
    run,                \* progress of the scripted connect/config/start run
    calls,              \* slot calls made so far
    budget,             \* slot calls the behaviour is followed for
    config_choices,     \* the configs the GUI passes in the behaviour
    overwrote           \* the latest registration that replaced another handler

vars == << current_state, transition_handlers, error_handlers, invoked, overwrote,
           session_config, armed, config_choices, comms_service, response_received, handlers, listeners,
           timers, inflight, emitted, last, concl, unanswered, sent_in, run, calls,
           budget, session_started, orphaned_sessions, stale_timers, error_msgs >>

\* ------------------------------------------------------------------------
\* The program state as one record, so that the statements of a method
\* compose in program order.
\* ------------------------------------------------------------------------
Bridge ==
    [ state    |-> current_state,
      th       |-> transition_handlers,
      eh       |-> error_handlers,
      invoked  |-> << >>,
      comms    |-> comms_service,
      started  |-> session_started,
      orphaned |-> orphaned_sessions,
      cfg      |-> session_config,
      armed    |-> << >>,
      recv     |-> response_received,
      reg      |-> handlers,
      lis      |-> listeners,
      timers   |-> timers,
      inflight |-> inflight,
      sig      |-> << >>,
      errs     |-> << >> ]

NoHandlers == [k \in Kinds |-> NoHandler]

NoListeners == [gps |-> 0, ping |-> 0, loc_est |-> 0, error |-> 0]

NoRequests == [k \in Kinds |-> 0]

\* <signal>.emit(...)
emit(b, s) == [b EXCEPT !.sig = Append(@, s)]

\* A mutation of emit_state_error: state_error is connected to nothing.
emit_state_error_unforwarded(b, msg) ==
    [emit(b, "state_error") EXCEPT !.errs = Append(@, msg)]

\* state_error.emit(msg); the bridge connects state_error to fatal_error.emit.
emit_state_error(b, msg) ==
    [emit(emit(b, "state_error"), "fatal_error") EXCEPT !.errs = Append(@, msg)]

\* ------------------------------------------------------------------------
\* DroneCommsService: the session and its response registry.
\* ------------------------------------------------------------------------

\* register_<kind>_response_handler(callback, once=True): one slot per kind.
register_response_handler(b, kind, cb) == [b EXCEPT !.reg[kind] = cb]

\* unregister_<kind>_response_handler(callback): empties the slot if it
\* holds that callback.
unregister_response_handler(b, kind, cb) ==
    IF b.reg[kind] = cb THEN [b EXCEPT !.reg[kind] = NoHandler] ELSE b

\* A mutation of register_listener: every registration adds an entry.
register_listener_appends(b, name) == [b EXCEPT !.lis[name] = @ + 1]

\* register_gps_handler / register_ping_handler / register_loc_est_handler /
\* register_error_handler(callback, once=False): one slot per message kind,
\* registering again replaces the registration.
register_listener(b, name) == [b EXCEPT !.lis[name] = 1]

\* unregister_gps_handler / unregister_ping_handler /
\* unregister_loc_est_handler(callback)
unregister_listener(b, name) == [b EXCEPT !.lis[name] = 0]

\* DroneCommsService(...): a new session object with nothing registered and
\* nothing sent; a session that is no longer referenced delivers nothing.
new_session(b, cfg) ==
    [b EXCEPT !.comms = TRUE, !.started = FALSE, !.cfg = cfg, !.reg = NoHandlers,
              !.lis = NoListeners, !.inflight = NoRequests]

\* self._comms_service.start() that returns.
start_session(b) == [b EXCEPT !.started = TRUE]

\* self._comms_service.stop(); self._comms_service = None
stop_session(b) ==
    [b EXCEPT !.comms = FALSE, !.started = FALSE, !.cfg = NoConfig,
              !.reg = NoHandlers, !.lis = NoListeners, !.inflight = NoRequests]

\* send_<kind>_request() that does not raise: one more response may arrive.
send_request(b, kind) == [b EXCEPT !.inflight[kind] = @ + 1]

\* ------------------------------------------------------------------------
\* DroneStateMachine
\* ------------------------------------------------------------------------

\* _setup_state_handlers: the states with a transition handler, and the
\* response kind the handler registers.
HandledStates ==
    { "RADIO_CONFIG_WAITING", "PING_FINDER_CONFIG_WAITING",
      "START_WAITING", "STOP_WAITING" }

HandlerKind(state) ==
    CASE state = "RADIO_CONFIG_WAITING" -> "sync"
      [] state = "PING_FINDER_CONFIG_WAITING" -> "config"
      [] state = "START_WAITING" -> "start"
      [] state = "STOP_WAITING" -> "stop"

\* The transition handlers after _setup_state_handlers; a handler is named
\* by the response kind it registers.
SetupHandlers ==
    [s \in DroneState |-> IF s \in HandledStates THEN HandlerKind(s) ELSE NoHandler]

\* A DroneStateMachine after __init__: no handler registered.
NoStateHandlers == [s \in DroneState |-> NoHandler]

\* Handlers a client of a DroneStateMachine of its own registers: two
\* transition handlers that return, one that raises, two error handlers
\* that return, one that raises.
TestHandlers == {"h1", "h2", "h_raises"}

TestErrorHandlers == {"e1", "e2", "e_raises"}

\* The messages that client passes to handle_error.
TestErrorMsgs == {"msg1", "msg2"}

\* The messages transition_to builds: f"Invalid state transition from ..."
\* and f"Error in transition handler: {e}".
InvalidTransitionMsg == "Invalid state transition"

TransitionHandlerMsg == "Error in transition handler"

\* The states that client uses.
SMStates == {"DISCONNECTED", "CONNECTING"}

\* A mutation of register_transition_handler: the first registration stays.
register_transition_handler_first_wins(b, state, handler) ==
    IF b.th[state] = NoHandler THEN [b EXCEPT !.th[state] = handler] ELSE b

\* DroneStateMachine.register_transition_handler(state, handler)
register_transition_handler(b, state, handler) == [b EXCEPT !.th[state] = handler]

\* DroneStateMachine.register_error_handler(state, handler)
register_error_handler(b, state, handler) == [b EXCEPT !.eh[state] = handler]

\* A handler of the machine is called: the call is logged with the state the
\* handler finds and the number of signals emitted before it.
invoke_handler(b, h) ==
    [b EXCEPT !.invoked = Append(@, [handler |-> h, state |-> b.state,
                                     signals |-> Len(b.sig)])]

\* The transition handler of a state raises:
\* lambda: self._comms_service.register_<kind>_response_handler(..., once=True)
\* raises when there is no session; of the client's handlers h_raises does.
transition_handler_raises(b, state) ==
    IF b.th[state] \in Kinds THEN ~b.comms ELSE b.th[state] = "h_raises"

\* What the transition handler of a state does when it does not raise.
run_transition_handler(b, state) ==
    IF b.th[state] \in Kinds
    THEN register_response_handler(b, b.th[state], b.th[state])
    ELSE b

\* A mutation of transition_to: the from_state of the transition is not checked.
transition_to_unchecked(b, new_state, from_state) ==
    LET b1 == [b EXCEPT !.state = new_state]
    IN  IF b1.th[new_state] # NoHandler
        THEN LET b2 == invoke_handler(b1, b1.th[new_state])
             IN  IF transition_handler_raises(b2, new_state)
                 THEN emit_state_error(b2, TransitionHandlerMsg)
                 ELSE emit(run_transition_handler(b2, new_state), "state_changed")
        ELSE emit(b1, "state_changed")

\* A mutation of transition_to: a raising handler undoes the transition.
transition_to_rolls_back(b, new_state, from_state) ==
    IF from_state # NoTransition /\ from_state # b.state
    THEN emit_state_error(b, InvalidTransitionMsg)
    ELSE LET b1 == [b EXCEPT !.state = new_state]
         IN  IF b1.th[new_state] # NoHandler
             THEN LET b2 == invoke_handler(b1, b1.th[new_state])
                  IN  IF transition_handler_raises(b2, new_state)
                      THEN emit_state_error([b2 EXCEPT !.state = b.state],
                                            TransitionHandlerMsg)
                      ELSE emit(run_transition_handler(b2, new_state),
                                "state_changed")
             ELSE emit(b1, "state_changed")

\* A mutation of transition_to: state_changed is emitted before the handler
\* is called.
transition_to_notifies_first(b, new_state, from_state) ==
    IF from_state # NoTransition /\ from_state # b.state
    THEN emit_state_error(b, InvalidTransitionMsg)
    ELSE LET b1 == emit([b EXCEPT !.state = new_state], "state_changed")
         IN  IF b1.th[new_state] # NoHandler
             THEN LET b2 == invoke_handler(b1, b1.th[new_state])
                  IN  IF transition_handler_raises(b2, new_state)
                      THEN emit_state_error(b2, TransitionHandlerMsg)
                      ELSE run_transition_handler(b2, new_state)
             ELSE b1

\* DroneStateMachine.transition_to(new_state, transition)
transition_to(b, new_state, from_state) ==
    IF from_state # NoTransition /\ from_state # b.state
    THEN emit_state_error(b, InvalidTransitionMsg)
    ELSE LET b1 == [b EXCEPT !.state = new_state]
         IN  IF b1.th[new_state] # NoHandler
             THEN LET b2 == invoke_handler(b1, b1.th[new_state])
                  IN  IF transition_handler_raises(b2, new_state)
                      THEN emit_state_error(b2, TransitionHandlerMsg)
                      ELSE emit(run_transition_handler(b2, new_state),
                                "state_changed")
             ELSE emit(b1, "state_changed")

\* The error handler of the current state raises: of the client's handlers
\* e_raises does.
error_handler_raises(b) == b.eh[b.state] = "e_raises"

\* A mutation of handle_error: what the error handler raises reaches the
\* caller.
handle_error_propagates(b, error_msg) ==
    IF b.eh[b.state] # NoHandler
    THEN LET b1 == invoke_handler(b, b.eh[b.state])
         IN  IF error_handler_raises(b1) THEN b1
             ELSE emit_state_error(b1, error_msg)
    ELSE emit_state_error(b, error_msg)

\* DroneStateMachine.handle_error(error_msg): the error handler of the
\* current state is called; when it raises, the except branch only logs;
\* state_error is emitted with error_msg.
handle_error(b, error_msg) ==
    emit_state_error(IF b.eh[b.state] # NoHandler
                     THEN invoke_handler(b, b.eh[b.state])
                     ELSE b,
                     error_msg)

\* ------------------------------------------------------------------------
\* CommunicationBridge: slots
\* ------------------------------------------------------------------------

\* How a call of initialize_comms can go:
\*   construct_raises  the config is malformed or DroneCommsService(...) raises
\*   start_raises      the session object is assigned, start() raises
\*   send_raises       send_sync_request() raises
\*   ok                nothing raises
InitOutcomes == {"construct_raises", "start_raises", "send_raises", "ok"}

\* A mutation of deadline_ms: the retries are left out.
deadline_ms_ignores_retries(ack_s, max_r) == ack_s * 1000

\* tt = ack_timeout * max_retries; int(tt * 1000), for ack_timeout a whole
\* number of seconds.
deadline_ms(ack_s, max_r) == ack_s * max_r * 1000

\* QTimer.singleShot(ms, self._<phase>_timeout_check)
arm_timer(b, p, ms) ==
    [b EXCEPT !.timers[p] = @ + 1,
              !.armed = Append(@, [phase |-> p, ms |-> ms])]

\* The deadline of the requests sent on the session:
\* self._comms_service.ack_timeout * self._comms_service.max_retries
session_deadline_ms(b) == deadline_ms(b.cfg.ack_timeout, b.cfg.max_retries)

\* self._comms_service = DroneCommsService(...): the attribute is assigned
\* over the session it referenced, on which stop() is not called.
drop_session(b) ==
    [b EXCEPT !.orphaned = IF b.comms /\ b.started THEN @ + 1 ELSE @]

initialize_comms(b, cfg, outcome) ==
    IF outcome = "construct_raises" THEN emit(b, "sync_failure")
    ELSE IF outcome = "start_raises"
    THEN emit(new_session(drop_session(b), cfg), "sync_failure")
    ELSE LET b1 == register_listener(
                       start_session(new_session(drop_session(b), cfg)), "error")
             b2 == transition_to(b1, "RADIO_CONFIG_WAITING", "RADIO_CONFIG_INPUT")
         IN  IF outcome = "send_raises" THEN emit(b2, "sync_failure")
             ELSE arm_timer([send_request(b2, "sync") EXCEPT !.recv["sync"] = FALSE],
                            "sync", deadline_ms(cfg.ack_timeout, cfg.max_retries))

\* The value initialize_comms returns.
initialize_comms_result(outcome) == outcome = "ok"

cancel_connection(b) ==
    IF b.comms
    THEN transition_to(stop_session(b), "RADIO_CONFIG_INPUT", NoTransition)
    ELSE b

\* CommunicationBridge._cleanup
cleanup(b) ==
    LET b1 == IF b.comms THEN stop_session(b) ELSE b
    IN  emit(transition_to(b1, "RADIO_CONFIG_INPUT", NoTransition),
             "disconnect_success")

\* How a call of disconnect can go.
DisconnectOutcomes == {"send_raises", "ok"}

disconnect(b, outcome) ==
    IF ~b.comms THEN emit(b, "disconnect_success")
    ELSE LET b1 == register_response_handler(b, "stop", "disconnect")
         IN  IF outcome = "send_raises"
             THEN cleanup(emit(b1, "disconnect_failure"))
             ELSE arm_timer([send_request(b1, "stop")
                                EXCEPT !.recv["disconnect"] = FALSE],
                            "disconnect", session_deadline_ms(b1))

\* How a call of send_config_request / send_start_request / send_stop_request
\* can go:
\*   build_raises  ConfigRequestData(...) raises on the fields (config only)
\*   send_raises   the transport send raises
\*   ok            nothing raises
SendOutcomes(p) ==
    IF p = "config" THEN {"build_raises", "send_raises", "ok"}
    ELSE {"send_raises", "ok"}

\* A mutation of send_phase_request: the session is not checked.
send_phase_request_unchecked(b, p, outcome) ==
    IF b.comms /\ outcome = "build_raises" THEN emit(b, Failure(p))
    ELSE LET b1 == register_response_handler(b, p, p)
         IN  IF b.comms /\ outcome = "send_raises" THEN emit(b1, Failure(p))
             ELSE arm_timer([send_request(b1, p) EXCEPT !.recv[p] = FALSE], p,
                            session_deadline_ms(b1))

\* A mutation of send_phase_request: the handler is registered before the
\* request data is built.
send_phase_request_registers_first(b, p, outcome) ==
    IF ~b.comms THEN emit(b, Failure(p))
    ELSE LET b1 == register_response_handler(b, p, p)
         IN  IF outcome \in {"build_raises", "send_raises"}
             THEN emit(b1, Failure(p))
             ELSE arm_timer([send_request(b1, p) EXCEPT !.recv[p] = FALSE], p,
                            session_deadline_ms(b1))

\* send_config_request, send_start_request, send_stop_request
send_phase_request(b, p, outcome) ==
    IF ~b.comms THEN emit(b, Failure(p))
    ELSE IF outcome = "build_raises" THEN emit(b, Failure(p))
    ELSE LET b1 == register_response_handler(b, p, p)
         IN  IF outcome = "send_raises" THEN emit(b1, Failure(p))
             ELSE arm_timer([send_request(b1, p) EXCEPT !.recv[p] = FALSE], p,
                            session_deadline_ms(b1))

\* The value the send slot returns.
send_phase_result(b, outcome) == b.comms /\ outcome = "ok"

\* A mutation of cancel_phase_request: the handler stays registered.
cancel_phase_request_keeps_handler(b, p) ==
    IF ~b.comms THEN emit(b, Failure(p)) ELSE b

\* A mutation of cancel_phase_request: the cancel also ends the session, as
\* cancel_connection does.
cancel_phase_request_stops_session(b, p) ==
    IF ~b.comms THEN emit(b, Failure(p))
    ELSE cancel_connection(unregister_response_handler(b, p, p))

\* cancel_config_request, cancel_start_request, cancel_stop_request
cancel_phase_request(b, p) ==
    IF ~b.comms THEN emit(b, Failure(p))
    ELSE unregister_response_handler(b, p, p)

\* The value the cancel slot returns.
cancel_phase_result(b) == b.comms

\* ------------------------------------------------------------------------
\* CommunicationBridge: timer and response callbacks
\* ------------------------------------------------------------------------

\* A mutation of timeout_check: the disconnect deadline reports the failure
\* and leaves the session as it is.
timeout_check_keeps_session(b, p) ==
    IF b.recv[p] THEN b
    ELSE IF p = "disconnect"
    THEN [emit(b, "disconnect_failure") EXCEPT !.recv[p] = TRUE]
    ELSE [emit(b, Timeout(p)) EXCEPT !.recv[p] = TRUE]

\* A mutation of timeout_check: the response flag is not consulted.
timeout_check_unguarded(b, p) ==
    IF p = "disconnect"
    THEN [cleanup(emit(b, "disconnect_failure")) EXCEPT !.recv[p] = TRUE]
    ELSE [emit(b, Timeout(p)) EXCEPT !.recv[p] = TRUE]

\* _sync_timeout_check, _config_timeout_check, _start_timeout_check,
\* _stop_timeout_check, _disconnect_timeout_check
timeout_check(b, p) ==
    IF b.recv[p] THEN b
    ELSE IF p = "disconnect"
    THEN [cleanup(emit(b, "disconnect_failure")) EXCEPT !.recv[p] = TRUE]
    ELSE [emit(b, Timeout(p)) EXCEPT !.recv[p] = TRUE]

\* The state a successful response of the phase moves the machine to.
NextState(p) ==
    CASE p = "sync" -> "PING_FINDER_CONFIG_INPUT"
      [] p = "config" -> "START_INPUT"
      [] p = "start" -> "STOP_INPUT"
      [] p = "stop" -> "PING_FINDER_CONFIG_INPUT"
      [] p = "disconnect" -> "RADIO_CONFIG_INPUT"

\* A mutation of success_effects: a successful stop response unregisters the
\* gps listener as well.
success_effects_stop_drops_gps(b, p) ==
    CASE p = "sync" -> register_listener(b, "gps")
      [] p = "config" -> b
      [] p = "start" -> register_listener(register_listener(b, "ping"), "loc_est")
      [] p = "stop" -> unregister_listener(
                           unregister_listener(unregister_listener(b, "ping"),
                                               "loc_est"), "gps")
      [] p = "disconnect" -> cleanup(unregister_listener(b, "gps"))

\* The side effects of a successful response, between the success signal and
\* the transition.
success_effects(b, p) ==
    CASE p = "sync" -> register_listener(b, "gps")
      [] p = "config" -> b
      [] p = "start" -> register_listener(register_listener(b, "ping"), "loc_est")
      [] p = "stop" -> unregister_listener(unregister_listener(b, "ping"), "loc_est")
      [] p = "disconnect" -> cleanup(unregister_listener(b, "gps"))

\* A mutation of on_response: a failed response does not move the machine to
\* ERROR.
on_response_failure_keeps_state(b, p, success) ==
    LET b1 == [b EXCEPT !.recv[p] = TRUE]
    IN  IF ~success
        THEN emit(b1, Failure(p))
        ELSE transition_to(success_effects(emit(b1, Success(p)), p),
                           NextState(p), NoTransition)

\* _on_sync_response, _on_config_response, _on_start_response,
\* _on_stop_response, _on_disconnect_response
on_response(b, p, success) ==
    LET b1 == [b EXCEPT !.recv[p] = TRUE]
    IN  IF ~success
        THEN transition_to(emit(b1, Failure(p)), "ERROR", NoTransition)
        ELSE transition_to(success_effects(emit(b1, Success(p)), p),
                           NextState(p), NoTransition)

\* A mutation of handle_error_packet: the error packet also concludes every
\* request.
handle_error_packet_concludes(b) ==
    emit([b EXCEPT !.recv = [p \in Phases |-> TRUE]], "fatal_error")

\* _handle_error_packet
handle_error_packet(b) == emit(b, "fatal_error")

\* The transport dispatches a response of a kind: the registered callback, if
\* any, is removed (once=True) and called.
dispatch_response(b, kind, success) ==
    LET b1 == [b EXCEPT !.inflight[kind] = @ - 1]
    IN  IF b1.reg[kind] = NoHandler THEN b1
        ELSE on_response([b1 EXCEPT !.reg[kind] = NoHandler], b1.reg[kind], success)

\* ------------------------------------------------------------------------
\* Bookkeeping about the run (not program state)
\* ------------------------------------------------------------------------

\* Outcome notifications of a phase among the signals of one step.
Notified(sig, p) ==
    Count(sig, Success(p)) + Count(sig, Failure(p)) + Count(sig, Timeout(p))

\* The scripted run: initialize_comms, sync response (success),
\* send_config_request, config response (success), send_start_request,
\* start response (success).  run counts the steps of the script taken from
\* the freshly constructed bridge; RunOff once the behaviour left the script.
RunScript ==
    << [op |-> "initialize_comms", phase |-> "sync"],
       [op |-> "deliver", phase |-> "sync"],
       [op |-> "send", phase |-> "config"],
       [op |-> "deliver", phase |-> "config"],
       [op |-> "send", phase |-> "start"],
       [op |-> "deliver", phase |-> "start"] >>

RunOff == Len(RunScript) + 1

RunStep(op, phase, good) ==
    IF run # RunOff /\ run < Len(RunScript) /\ good
       /\ RunScript[run + 1] = [op |-> op, phase |-> phase]
    THEN run + 1
    ELSE RunOff

\* No registration has replaced another yet.
NoOverwrite == [table |-> "none", state |-> "none", old |-> "none", new |-> "none"]

CommitProgram(b) ==
    /\ current_state' = b.state
    /\ transition_handlers' = b.th
    /\ error_handlers' = b.eh
    /\ invoked' = b.invoked
    /\ comms_service' = b.comms
    /\ session_started' = b.started
    /\ orphaned_sessions' = b.orphaned
    /\ session_config' = b.cfg
    /\ armed' = b.armed
    /\ response_received' = b.recv
    /\ handlers' = b.reg
    /\ listeners' = b.lis
    /\ timers' = b.timers
    /\ inflight' = b.inflight
    /\ emitted' = b.sig
    /\ error_msgs' = b.errs

Commit(b) == CommitProgram(b) /\ UNCHANGED << budget, config_choices, overwrote >>

Record(op, phase, arg) ==
    last' = [op |-> op, phase |-> phase, arg |-> arg]

\* How a request stands once it is no longer awaited: its response was
\* handled, its timeout was reported, or it was cancelled.
Concluded == {"responded", "timed_out", "cancelled"}

\* A request of the phase is sent: if the latest request of the phase has
\* concluded, the deadlines still pending are those of concluded requests.
StaleAtSend(p, ok) ==
    stale_timers' = [stale_timers EXCEPT ![p] =
                        IF ok /\ concl[p] \in Concluded THEN timers[p] ELSE @]

\* A deadline of the phase fires; the deadlines of a phase are equally long
\* and fire in the order they were armed.
StaleAtFire(p) ==
    stale_timers' = [stale_timers EXCEPT ![p] = IF @ > 0 THEN @ - 1 ELSE @]

Answered(b, p) ==
    unanswered' = [unanswered EXCEPT ![p] = @ - Notified(b.sig, p)]

\* ------------------------------------------------------------------------
\* Initial state: CommunicationBridge.__init__
\* ------------------------------------------------------------------------
Constructed ==
    /\ current_state = ConstructedState
    /\ transition_handlers = SetupHandlers
    /\ error_handlers = NoStateHandlers
    /\ invoked = << >>
    /\ overwrote = NoOverwrite
    /\ comms_service = FALSE
    /\ session_started = FALSE
    /\ orphaned_sessions = 0
    /\ session_config = NoConfig
    /\ response_received = [p \in Phases |-> FALSE]
    /\ handlers = NoHandlers
    /\ listeners = NoListeners
    /\ timers = [p \in Phases |-> 0]
    /\ stale_timers = [p \in Phases |-> 0]
    /\ armed = << >>
    /\ inflight = NoRequests
    /\ emitted = << >>
    /\ error_msgs = << >>
    /\ last = [op |-> "init", phase |-> "none", arg |-> "none"]
    /\ concl = [p \in Phases |-> "idle"]
    /\ unanswered = [p \in SendPhases |-> 0]
    /\ sent_in = [p \in Phases |-> "none"]
    /\ run = 0
    /\ calls = 0

\* The GUI passes the same config to every initialize_comms.
Init ==
    /\ Constructed
    /\ config_choices = {DefaultConfig}
    /\ budget = MaxCalls

\* ------------------------------------------------------------------------
\* Actions
\* ------------------------------------------------------------------------

\* The GUI calls initialize_comms(config).
InitializeComms ==
    \E cfg \in config_choices : \E outcome \in InitOutcomes :
        LET b  == initialize_comms(Bridge, cfg, outcome)
            ok == initialize_comms_result(outcome)
        IN  /\ calls < budget
            /\ Commit(b)
            /\ Record("initialize_comms", "sync", outcome)
            /\ concl' = [concl EXCEPT !["sync"] =
                            IF ok THEN "pending"
                            ELSE IF outcome = "construct_raises" THEN @
                            ELSE "failed"]
            /\ unanswered' = [unanswered EXCEPT !["sync"] =
                                 @ + 1 - Notified(b.sig, "sync")]
            /\ sent_in' = [sent_in EXCEPT !["sync"] = IF ok THEN b.state ELSE @]
            /\ run' = RunStep("initialize_comms", "sync", ok)
            /\ StaleAtSend("sync", ok)
            /\ calls' = calls + 1

\* The GUI calls cancel_connection().
CancelConnection ==
    LET b == cancel_connection(Bridge)
    IN  /\ calls < budget
        /\ Commit(b)
        /\ Record("cancel_connection", "sync", "none")
        /\ concl' = [concl EXCEPT !["sync"] =
                        IF comms_service /\ @ = "pending" THEN "cancelled" ELSE @]
        /\ run' = RunOff
        /\ calls' = calls + 1
        /\ UNCHANGED << unanswered, sent_in, stale_timers >>

\* The GUI calls disconnect().
Disconnect ==
    \E outcome \in DisconnectOutcomes :
        LET b == disconnect(Bridge, outcome)
        IN  /\ calls < budget
            /\ comms_service \/ outcome = "ok"
            /\ Commit(b)
            /\ Record("disconnect", "disconnect", outcome)
            /\ concl' = [concl EXCEPT !["disconnect"] =
                            IF ~comms_service THEN @
                            ELSE IF outcome = "ok" THEN "pending"
                            ELSE "failed"]
            /\ sent_in' = [sent_in EXCEPT !["disconnect"] =
                              IF comms_service /\ outcome = "ok" THEN b.state ELSE @]
            /\ run' = RunOff
            /\ StaleAtSend("disconnect", comms_service /\ outcome = "ok")
            /\ calls' = calls + 1
            /\ UNCHANGED unanswered

\* The GUI calls send_config_request(cfg), send_start_request() or
\* send_stop_request().
SendRequest ==
    \E p \in RequestPhases : \E outcome \in SendOutcomes(p) :
        LET b  == send_phase_request(Bridge, p, outcome)
            ok == send_phase_result(Bridge, outcome)
        IN  /\ calls < budget
            /\ comms_service \/ outcome = "ok"
            /\ Commit(b)
            /\ Record("send", p, IF comms_service THEN outcome ELSE "not_connected")
            /\ concl' = [concl EXCEPT ![p] =
                            IF ok THEN "pending"
                            ELSE IF comms_service /\ outcome = "send_raises"
                            THEN "failed"
                            ELSE @]
            /\ unanswered' = [unanswered EXCEPT ![p] = @ + 1 - Notified(b.sig, p)]
            /\ sent_in' = [sent_in EXCEPT ![p] = IF ok THEN b.state ELSE @]
            /\ run' = RunStep("send", p, ok)
            /\ StaleAtSend(p, ok)
            /\ calls' = calls + 1

\* The GUI calls cancel_config_request(), cancel_start_request() or
\* cancel_stop_request().
CancelRequest ==
    \E p \in RequestPhases :
        LET b == cancel_phase_request(Bridge, p)
        IN  /\ calls < budget
            /\ Commit(b)
            /\ Record("cancel", p, IF comms_service THEN "none" ELSE "not_connected")
            /\ concl' = [concl EXCEPT ![p] =
                            IF comms_service /\ @ = "pending" THEN "cancelled" ELSE @]
            /\ run' = RunOff
            /\ calls' = calls + 1
            /\ UNCHANGED << unanswered, sent_in, stale_timers >>

\* A pending single-shot timer fires and calls _<phase>_timeout_check.
TimerFires ==
    \E p \in Phases :
        LET b == timeout_check([Bridge EXCEPT !.timers[p] = @ - 1], p)
        IN  /\ timers[p] > 0
            /\ Commit(b)
            /\ Record("timeout_check", p,
                      IF response_received[p] THEN "noop" ELSE "timeout")
            /\ concl' = [concl EXCEPT ![p] =
                            IF ~response_received[p] /\ @ = "pending"
                            THEN "timed_out" ELSE @]
            /\ IF p \in SendPhases THEN Answered(b, p) ELSE UNCHANGED unanswered
            /\ run' = RunOff
            /\ StaleAtFire(p)
            /\ UNCHANGED << sent_in, calls >>

\* The session receives the response to a request it sent and dispatches it.
DeliverResponse ==
    \E kind \in Kinds : \E success \in BOOLEAN :
        LET b == dispatch_response(Bridge, kind, success)
            p == handlers[kind]
        IN  /\ comms_service
            /\ inflight[kind] > 0
            /\ Commit(b)
            /\ Record(IF p = NoHandler THEN "response_dropped" ELSE "on_response",
                      IF p = NoHandler THEN kind ELSE p,
                      IF success THEN "success" ELSE "failure")
            /\ concl' = IF p = NoHandler THEN concl
                        ELSE [concl EXCEPT ![p] =
                                 IF @ = "pending" THEN "responded" ELSE @]
            /\ IF p \in SendPhases THEN Answered(b, p) ELSE UNCHANGED unanswered
            /\ run' = RunStep("deliver", kind, success)
            /\ UNCHANGED << sent_in, calls, stale_timers >>

\* The session receives an error packet and calls _handle_error_packet.
ErrorPacket ==
    LET b == handle_error_packet(Bridge)
    IN  /\ comms_service
        /\ listeners.error > 0
        /\ Commit(b)
        /\ Record("error_packet", "none", "none")
        /\ run' = RunOff
        /\ UNCHANGED << concl, unanswered, sent_in, calls, stale_timers >>

Next ==
    \/ InitializeComms
    \/ CancelConnection
    \/ Disconnect
    \/ SendRequest
    \/ CancelRequest
    \/ TimerFires
    \/ DeliverResponse
    \/ ErrorPacket

Spec == Init /\ [][Next]_vars

\* ------------------------------------------------------------------------
\* Behaviours from the connected bridge
\* ------------------------------------------------------------------------

\* The slot calls that connect a freshly constructed bridge: the first
\* initialize_comms leaves the machine in DISCONNECTED, cancel_connection
\* moves it to RADIO_CONFIG_INPUT, the second initialize_comms enters
\* RADIO_CONFIG_WAITING and registers the sync response handler.
ConnectScript == << "initialize_comms", "cancel_connection", "initialize_comms" >>

\* The program state once the sync response (success) to the last call of
\* ConnectScript has been handled, no deadline having fired yet.
Connected ==
    /\ current_state = "PING_FINDER_CONFIG_INPUT"
    /\ transition_handlers = SetupHandlers
    /\ error_handlers = NoStateHandlers
    /\ comms_service = TRUE
    /\ session_started = TRUE
    /\ orphaned_sessions = 0
    /\ session_config = DefaultConfig
    /\ response_received = [p \in Phases |-> p = "sync"]
    /\ handlers = NoHandlers
    /\ listeners = [gps |-> 1, ping |-> 0, loc_est |-> 0, error |-> 1]
    /\ timers = [p \in Phases |-> IF p = "sync" THEN 2 ELSE 0]
    /\ inflight = NoRequests

InitConnected ==
    /\ Connected
    /\ stale_timers = [p \in Phases |-> IF p = "sync" THEN 1 ELSE 0]
    /\ invoked = << >>
    /\ armed = << >>
    /\ config_choices = {DefaultConfig}
    /\ overwrote = NoOverwrite
    /\ emitted = << "sync_success", "state_changed" >>
    /\ error_msgs = << >>
    /\ last = [op |-> "on_response", phase |-> "sync", arg |-> "success"]
    /\ concl = [p \in Phases |-> IF p = "sync" THEN "responded" ELSE "idle"]
    /\ unanswered = [p \in SendPhases |-> IF p = "sync" THEN 1 ELSE 0]
    /\ sent_in = [p \in Phases |->
                     IF p = "sync" THEN "RADIO_CONFIG_WAITING" ELSE "none"]
    /\ run = RunOff
    /\ calls = Len(ConnectScript)
    /\ budget = Len(ConnectScript) + MaxMoreCalls

SpecConnected == InitConnected /\ [][Next]_vars

\* ------------------------------------------------------------------------
\* Behaviours in which the GUI passes different acknowledgement settings
\* ------------------------------------------------------------------------
InitTimers ==
    /\ Constructed
    /\ config_choices = Configs
    /\ budget = MaxTimedCalls

SpecTimers == InitTimers /\ [][Next]_vars

\* ------------------------------------------------------------------------
\* Behaviours of a DroneStateMachine of its own
\* ------------------------------------------------------------------------

\* DroneStateMachine(): DISCONNECTED, no handlers; there is no session.
SMInit ==
    /\ current_state = ConstructedState
    /\ transition_handlers = NoStateHandlers
    /\ error_handlers = NoStateHandlers
    /\ invoked = << >>
    /\ overwrote = NoOverwrite
    /\ comms_service = FALSE
    /\ session_started = FALSE
    /\ orphaned_sessions = 0
    /\ session_config = NoConfig
    /\ response_received = [p \in Phases |-> FALSE]
    /\ handlers = NoHandlers
    /\ listeners = NoListeners
    /\ timers = [p \in Phases |-> 0]
    /\ stale_timers = [p \in Phases |-> 0]
    /\ armed = << >>
    /\ inflight = NoRequests
    /\ emitted = << >>
    /\ error_msgs = << >>
    /\ last = [op |-> "init", phase |-> "none", arg |-> "none"]
    /\ concl = [p \in Phases |-> "idle"]
    /\ unanswered = [p \in SendPhases |-> 0]
    /\ sent_in = [p \in Phases |-> "none"]
    /\ run = RunOff
    /\ calls = 0
    /\ budget = 0
    /\ config_choices = {}

\* The registration replaces a different handler of the slot.
Overwrites(table, slots, state, handler) ==
    IF slots[state] # NoHandler /\ slots[state] # handler
    THEN [table |-> table, state |-> state, old |-> slots[state], new |-> handler]
    ELSE overwrote

\* The client calls register_transition_handler(state, handler).
RegisterTransitionHandler ==
    \E state \in SMStates : \E h \in TestHandlers :
        /\ CommitProgram(register_transition_handler(Bridge, state, h))
        /\ Record("register_transition_handler", state, h)
        /\ overwrote' = Overwrites("transition", transition_handlers, state, h)
        /\ UNCHANGED << concl, unanswered, sent_in, run, calls, budget,
                        config_choices, stale_timers >>

\* The client calls register_error_handler(state, handler).
RegisterErrorHandler ==
    \E state \in SMStates : \E h \in TestErrorHandlers :
        /\ CommitProgram(register_error_handler(Bridge, state, h))
        /\ Record("register_error_handler", state, h)
        /\ overwrote' = Overwrites("error", error_handlers, state, h)
        /\ UNCHANGED << concl, unanswered, sent_in, run, calls, budget,
                        config_choices, stale_timers >>

\* The client calls transition_to(new_state) or
\* transition_to(new_state, StateTransition(from_state, ...)).
TransitionTo ==
    \E new_state \in SMStates : \E from_state \in SMStates \cup {NoTransition} :
        /\ Commit(transition_to(Bridge, new_state, from_state))
        /\ Record("transition_to", new_state, from_state)
        /\ UNCHANGED << concl, unanswered, sent_in, run, calls, stale_timers >>

\* The client calls handle_error(msg).
HandleError ==
    \E error_msg \in TestErrorMsgs :
        /\ Commit(handle_error(Bridge, error_msg))
        /\ Record("handle_error", current_state, error_msg)
        /\ UNCHANGED << concl, unanswered, sent_in, run, calls, stale_timers >>

SMNext ==
    \/ RegisterTransitionHandler
    \/ RegisterErrorHandler
    \/ TransitionTo
    \/ HandleError

SMSpec == SMInit /\ [][SMNext]_vars

\* ------------------------------------------------------------------------
\* Vocabulary of the properties
\* ------------------------------------------------------------------------

\* The waiting state of a phase: the state whose transition handler arms the
\* phase's response listener.
WaitingState(p) == CHOOSE s \in HandledStates : HandlerKind(s) = p

\* The states the scripted run is said to visit, one per step of the script.
RunStates ==
    << "RADIO_CONFIG_INPUT", "RADIO_CONFIG_WAITING",
       "PING_FINDER_CONFIG_INPUT", "PING_FINDER_CONFIG_WAITING",
       "START_INPUT", "START_WAITING", "STOP_INPUT" >>

\* The step just taken called transition_to with a StateTransition argument:
\* initialize_comms reached line 216.
GuardedTransitionStep ==
    last'.op = "initialize_comms" /\ last'.arg \in {"send_raises", "ok"}

\* ------------------------------------------------------------------------
\* Properties
\* ------------------------------------------------------------------------

\* The phases whose response kind no other phase shares: every response of
\* the kind answers a send call of the phase itself.
OwnKindPhases == {p \in SendPhases : \A q \in Phases : KindOf(q) = p => q = p}

\* C1: at most one of a phase's success, failure and timeout notifications is
\* emitted per send call.  Stated on the totals, for the phases that share
\* their response kind with no other phase: the notifications of the phase
\* never outnumber its send calls.
C1_AtMostOneNotificationPerSend ==
    \A p \in OwnKindPhases : unanswered[p] >= 0

\* C2: transition_to with a transition whose from_state differs from the
\* current state leaves the current state alone, runs no transition handler
\* (the sync listener stays unregistered), emits no state_changed and emits
\* exactly one state_error.
C2_MismatchedFromIsRejected ==
    [][ (GuardedTransitionStep /\ current_state # "RADIO_CONFIG_INPUT")
        => /\ current_state' = current_state
           /\ handlers'["sync"] = NoHandler
           /\ Count(emitted', "state_changed") = 0
           /\ Count(emitted', "state_error") = 1 ]_vars

\* C2 witness: initialize_comms ran to its end from a state other than
\* RADIO_CONFIG_INPUT and its transition was rejected.
C2_Witness ==
    /\ last.op = "initialize_comms" /\ last.arg = "ok"
    /\ current_state = "ERROR"
    /\ Count(emitted, "state_error") = 1

\* C3: once the deadline of a phase has reported a timeout, a response
\* handled afterwards for that request emits no success or failure
\* notification and commits no transition.
C3_NoHandlingAfterTimeout ==
    [][ \A p \in Phases :
          (concl[p] = "timed_out" /\ last'.op = "on_response" /\ last'.phase = p)
          => /\ Count(emitted', Success(p)) = 0
             /\ Count(emitted', Failure(p)) = 0
             /\ current_state' = current_state ]_vars

\* C4: a deadline that fires after the response of the same request was
\* processed changes nothing: state, session, flags, registrations and
\* undelivered requests stay as the response left them and nothing is emitted.
C4_LateDeadlineIsNoOp ==
    [][ (last'.op = "timeout_check" /\ concl[last'.phase] = "responded")
        => /\ emitted' = << >>
           /\ UNCHANGED << current_state, comms_service, response_received,
                           handlers, listeners, inflight >> ]_vars

\* C4 witness: the config deadline fired after the successful response of
\* the latest config request had been handled.
C4_Witness ==
    /\ last.op = "timeout_check"
    /\ concl[last.phase] = "responded"
    /\ last.phase = "config"
    /\ current_state = "START_INPUT"

C6_NoTimeoutAfterCancel ==
    [][ (/\ last'.op = "timeout_check"
         /\ last'.phase \in SendPhases
         /\ concl[last'.phase] = "cancelled")
        => Count(emitted', Timeout(last'.phase)) = 0 ]_vars

\* C7: the response of a pending request changes the current state only
\* when the current state is the state in which the request of its phase was
\* awaiting the response (the state the machine was in when the send call
\* returned).
C7_ResponseOnlyInAwaitingState ==
    [][ (/\ last'.op = "on_response"
         /\ concl[last'.phase] = "pending"
         /\ current_state' # current_state)
        => current_state = sent_in[last'.phase] ]_vars

\* C8: a pending request of sync, config, start or stop exists only while
\* the current state is the phase's waiting state.
C8_PendingOnlyInWaitingState ==
    \A p \in SendPhases :
        concl[p] = "pending" => current_state = WaitingState(p)

\* C9: along the scripted run from the freshly constructed bridge the
\* current state is, step by step, RADIO_CONFIG_INPUT, RADIO_CONFIG_WAITING,
\* PING_FINDER_CONFIG_INPUT, PING_FINDER_CONFIG_WAITING, START_INPUT,
\* START_WAITING, STOP_INPUT.
C9_ScriptedRunStates ==
    run # RunOff => current_state = RunStates[run + 1]

\* C10: when the deadline of sync, config, start or stop fires with no
\* response received, exactly one timeout notification of the phase is
\* emitted, the current state is unchanged (RADIO_CONFIG_WAITING for sync)
\* and the session is kept.
C10_TimeoutKeepsState ==
    [][ (/\ last'.op = "timeout_check"
         /\ last'.phase \in SendPhases
         /\ ~response_received[last'.phase])
        => /\ emitted' = << Timeout(last'.phase) >>
           /\ current_state' = current_state
           /\ comms_service' = comms_service
           /\ (last'.phase = "sync" => current_state' = "RADIO_CONFIG_WAITING") ]_vars

\* The program state a call that does nothing leaves alone.
ProgramUnchanged ==
    UNCHANGED << current_state, comms_service, session_started,
                 orphaned_sessions, response_received, handlers, listeners,
                 timers, inflight >>

\* C11: a response with success = false, of any phase, emits exactly one
\* failure notification of the phase and no success notification, registers
\* and unregisters no listener, keeps the session, and leaves the machine in
\* ERROR.
C11_FailureResponse ==
    [][ (last'.op = "on_response" /\ last'.arg = "failure")
        => /\ Count(emitted', Failure(last'.phase)) = 1
           /\ Count(emitted', Success(last'.phase)) = 0
           /\ listeners' = listeners
           /\ comms_service' = comms_service
           /\ current_state' = "ERROR" ]_vars

\* C11 witness: a failed disconnect response was handled; the session is
\* still there and the machine is in ERROR.
C11_Witness ==
    /\ last = [op |-> "on_response", phase |-> "disconnect", arg |-> "failure"]
    /\ comms_service
    /\ current_state = "ERROR"

\* C12: when the transport send raises in initialize_comms or in
\* send_config_request / send_start_request / send_stop_request, the call
\* reports the failure, the current state is the one before the call and no
\* deadline timer is armed.
C12_SendRaisesChangesNothing ==
    [][ (last'.op \in {"initialize_comms", "send"} /\ last'.arg = "send_raises")
        => /\ Count(emitted', Failure(last'.phase)) = 1
           /\ current_state' = current_state
           /\ timers' = timers ]_vars

\* C13: disconnect() without a session emits disconnect_failure, emits no
\* disconnect_success, changes no state and arms no timer.
C13_DisconnectWithoutSession ==
    [][ (last'.op = "disconnect" /\ ~comms_service)
        => /\ Count(emitted', "disconnect_failure") = 1
           /\ Count(emitted', "disconnect_success") = 0
           /\ ProgramUnchanged ]_vars

\* C14: when the deadline of a disconnect() passes with no response, the gps
\* listener is unregistered, the session is torn down, the state is
\* RADIO_CONFIG_INPUT, one outcome notification of the disconnect is emitted,
\* and the flag that makes a second deadline a no-op is set.
C14_DisconnectTimeout ==
    [][ (last'.op = "timeout_check" /\ last'.phase = "disconnect"
         /\ last'.arg = "timeout")
        => /\ listeners'.gps = 0
           /\ ~comms_service'
           /\ current_state' = "RADIO_CONFIG_INPUT"
           /\ response_received'["disconnect"]
           /\ Count(emitted', "disconnect_failure")
                + Count(emitted', "disconnect_success") = 1 ]_vars

\* C15: a successful disconnect response unregisters the gps listener, tears
\* the session down and moves to RADIO_CONFIG_INPUT, emitting exactly one
\* disconnect_success and exactly one state_changed.
C15_DisconnectSuccess ==
    [][ (last'.op = "on_response" /\ last'.phase = "disconnect"
         /\ last'.arg = "success")
        => /\ listeners'.gps = 0
           /\ ~comms_service'
           /\ current_state' = "RADIO_CONFIG_INPUT"
           /\ Count(emitted', "disconnect_success") = 1
           /\ Count(emitted', "state_changed") = 1 ]_vars

\* C16: send_config_request, send_start_request, send_stop_request and their
\* cancel counterparts, called without a session, emit the failure
\* notification of the phase, return false, and change nothing: no request
\* sent, no handler registered, no timer armed, state and flags unchanged.
C16_RequestWithoutSession ==
    [][ (last'.op \in {"send", "cancel"} /\ ~comms_service)
        => /\ emitted' = << Failure(last'.phase) >>
           /\ ~send_phase_result(Bridge, "ok")
           /\ ~cancel_phase_result(Bridge)
           /\ ProgramUnchanged ]_vars

\* C16 witness: send_start_request was called without a session and reported
\* start_failure.
C16_Witness ==
    /\ last = [op |-> "send", phase |-> "start", arg |-> "not_connected"]
    /\ emitted = << "start_failure" >>
    /\ ~comms_service

\* C17: send_config_request whose fields ConfigRequestData rejects emits
\* config_failure once and has no other effect: no config handler registered,
\* no request sent, no timer armed, state unchanged.
C17_MalformedConfig ==
    [][ (last'.op = "send" /\ last'.arg = "build_raises")
        => /\ emitted' = << "config_failure" >>
           /\ ~send_phase_result(Bridge, "build_raises")
           /\ ProgramUnchanged ]_vars

\* C17 witness: send_config_request failed on its fields while connected, with
\* no config handler registered.
C17_Witness ==
    /\ last = [op |-> "send", phase |-> "config", arg |-> "build_raises"]
    /\ comms_service
    /\ handlers["config"] = NoHandler

\* C18: cancel_connection with a session tears the session down and leaves
\* the machine in RADIO_CONFIG_INPUT, which is the state the machine had when
\* it was constructed; without a session it changes nothing.
C18_CancelConnection ==
    [][ last'.op = "cancel_connection"
        => IF comms_service
           THEN /\ ~comms_service'
                /\ current_state' = "RADIO_CONFIG_INPUT"
                /\ current_state' = ConstructedState
           ELSE ProgramUnchanged /\ emitted' = << >> ]_vars

\* C19: cancel_config_request, cancel_start_request and cancel_stop_request
\* unregister the response handler of their phase and nothing else: the
\* current state, the session, the listeners, the timers and the slots of the
\* other kinds are unchanged, and the slot of the kind changes only by losing
\* the handler of the phase.
C19_CancelOnlyUnregisters ==
    [][ last'.op = "cancel"
        => /\ UNCHANGED << current_state, comms_service, response_received,
                           listeners, timers, inflight >>
           /\ \A k \in Kinds \ {last'.phase} : handlers'[k] = handlers[k]
           /\ handlers'[last'.phase] =
                  IF comms_service /\ handlers[last'.phase] = last'.phase
                  THEN NoHandler
                  ELSE handlers[last'.phase] ]_vars

\* C19 witness: cancel_stop_request was called while the stop slot held the
\* handler of a disconnect; the slot still holds it.
C19_Witness ==
    /\ last = [op |-> "cancel", phase |-> "stop", arg |-> "none"]
    /\ handlers["stop"] = "disconnect"
    /\ comms_service

C21_StopSuccess ==
    [][ (last'.op = "on_response" /\ last'.phase = "stop"
         /\ last'.arg = "success")
        => /\ listeners'.ping = 0
           /\ listeners'.loc_est = 0
           /\ listeners'.gps = listeners.gps
           /\ comms_service'
           /\ current_state' = "PING_FINDER_CONFIG_INPUT" ]_vars

\* C21 witness: on the connected bridge a start request and then a stop
\* request were sent, and the stop response succeeded; the gps listener is
\* still registered.
C21_Witness ==
    /\ last = [op |-> "on_response", phase |-> "stop", arg |-> "success"]
    /\ timers["start"] = 1
    /\ listeners = [gps |-> 1, ping |-> 0, loc_est |-> 0, error |-> 1]
    /\ comms_service
    /\ current_state = "PING_FINDER_CONFIG_INPUT"

\* C22: an error packet is surfaced as exactly one fatal_error, whatever the
\* state and the phase, and nothing else is done: no response flag changes,
\* no handler or listener is registered or unregistered, no timer and no
\* request in flight is touched.
C22_ErrorPacketOnlyNotifies ==
    [][ last'.op = "error_packet"
        => /\ Count(emitted', "fatal_error") = 1
           /\ Len(emitted') = 1
           /\ UNCHANGED << comms_service, response_received, handlers,
                           listeners, timers, inflight >> ]_vars

\* C22 witness: an error packet was handled while a config request was
\* pending.
C22_Witness ==
    /\ last.op = "error_packet"
    /\ concl["config"] = "pending"
    /\ ~response_received["config"]
    /\ timers["config"] > 0

\* C23: after an error packet is handled the current state is ERROR, whatever
\* it was before.
C23_ErrorPacketEntersError ==
    [][ last'.op = "error_packet" => current_state' = "ERROR" ]_vars

\* The step just taken is a transition_to the machine accepted: called with
\* no StateTransition, or with one whose from_state is the current state.
AcceptedTransition ==
    /\ last'.op = "transition_to"
    /\ last'.arg \in {NoTransition, current_state}

\* The handler registered for the target of the transition_to just taken
\* raises.
TargetHandlerRaises ==
    /\ transition_handlers[last'.phase] # NoHandler
    /\ transition_handler_raises(Bridge, last'.phase)

\* The call of the handler registered for the target of the transition_to
\* just taken: it finds the new state and no signal emitted yet.
TargetHandlerCall ==
    [handler |-> transition_handlers[last'.phase], state |-> last'.phase,
     signals |-> 0]

\* C24: when the transition handler of the target state raises during an
\* accepted transition_to, the current state is the new state (no rollback),
\* exactly one state_error is emitted and no state_changed.
C24_RaisingHandlerKeepsTransition ==
    [][ (AcceptedTransition /\ TargetHandlerRaises)
        => /\ current_state' = last'.phase
           /\ Count(emitted', "state_error") = 1
           /\ Count(emitted', "state_changed") = 0 ]_vars

\* C24 witness: transition_to(CONNECTING, from DISCONNECTED) was accepted, the
\* handler of CONNECTING raised, and the machine is in CONNECTING.
C24_Witness ==
    /\ last = [op |-> "transition_to", phase |-> "CONNECTING",
               arg |-> "DISCONNECTED"]
    /\ invoked = << [handler |-> "h_raises", state |-> "CONNECTING",
                     signals |-> 0] >>
    /\ Count(emitted, "state_error") = 1
    /\ current_state = "CONNECTING"

\* C25 as stated: every accepted transition_to sets the current state to
\* new_state, then calls the transition handler registered for new_state
\* exactly once (if any), and only then emits exactly one state_changed.
C25_AcceptedTransitionNotifies ==
    [][ AcceptedTransition
        => /\ current_state' = last'.phase
           /\ invoked' = IF transition_handlers[last'.phase] # NoHandler
                         THEN << TargetHandlerCall >>
                         ELSE << >>
           /\ emitted' = << "state_changed" >> ]_vars

\* C25 amended: every accepted transition_to whose handler does not raise
\* sets the current state to new_state, then calls the transition handler
\* registered for new_state exactly once (if any), and only then emits
\* exactly one state_changed.
C25_AcceptedTransitionNotifiesUnlessRaised ==
    [][ (AcceptedTransition /\ ~TargetHandlerRaises)
        => /\ current_state' = last'.phase
           /\ invoked' = IF transition_handlers[last'.phase] # NoHandler
                         THEN << TargetHandlerCall >>
                         ELSE << >>
           /\ emitted' = << "state_changed" >> ]_vars

\* C25 witness: transition_to(CONNECTING) without a StateTransition was
\* accepted; the handler h1 of CONNECTING was called once, in CONNECTING and
\* before the one state_changed.
C25_Witness ==
    /\ last = [op |-> "transition_to", phase |-> "CONNECTING",
               arg |-> NoTransition]
    /\ invoked = << [handler |-> "h1", state |-> "CONNECTING", signals |-> 0] >>
    /\ emitted = << "state_changed" >>
    /\ current_state = "CONNECTING"

\* The handlers the step just taken called.
Called == {invoked'[i].handler : i \in DOMAIN invoked'}

TimeoutHandler(p) == Timeout(p)

\* C27: when the deadline of sync, config, start or stop elapses without a
\* response, the timeout handler registered for the waiting state of the
\* phase is called.
C27_TimeoutHandlerInvoked ==
    [][ (last'.op = "timeout_check" /\ last'.phase \in SendPhases
         /\ last'.arg = "timeout")
        => TimeoutHandler(last'.phase) \in Called ]_vars

\* C28: a request of sync, config or start (and stop) is sent only with the
\* response handler of its phase registered: initialize_comms has entered
\* RADIO_CONFIG_WAITING, whose transition handler registered the sync
\* response handler, before it sends, and the send slots have registered
\* theirs.
C28_ListenerArmedBeforeSend ==
    [][ (last'.op \in {"initialize_comms", "send"} /\ last'.arg = "ok")
        => /\ handlers'[last'.phase] = last'.phase
           /\ (last'.op = "initialize_comms"
                  => current_state' = "RADIO_CONFIG_WAITING") ]_vars

\* C29: a request of sync, config, start or stop that has been concluded by
\* its response or by its deadline gets no further success, failure or
\* timeout notification: one request, one outcome.
C29_OneOutcomePerRequest ==
    [][ (/\ last'.op \in {"on_response", "timeout_check"}
         /\ last'.phase \in SendPhases
         /\ concl[last'.phase] \in {"responded", "timed_out"})
        => Notified(emitted', last'.phase) = 0 ]_vars

\* The step just taken is a send operation that sent its request.
RequestSent ==
    /\ last'.op \in {"initialize_comms", "send", "disconnect"}
    /\ last'.arg = "ok"
    /\ last'.op = "initialize_comms" \/ comms_service

C31_ErrorRecoveredByInitializeComms ==
    [][ (current_state = "ERROR" /\ last'.op = "initialize_comms"
            /\ last'.arg = "ok")
        => /\ current_state' = "RADIO_CONFIG_WAITING"
           /\ handlers'["sync"] = "sync" ]_vars

\* C32: when the guarded transition of initialize_comms is rejected, the
\* current state not being RADIO_CONFIG_INPUT, no sync request is sent, no
\* deadline is armed and the call does not return true.
C32_RejectedTransitionSendsNothing ==
    [][ (GuardedTransitionStep /\ current_state # "RADIO_CONFIG_INPUT")
        => /\ inflight'["sync"] = 0
           /\ armed' = << >>
           /\ timers' = timers
           /\ ~initialize_comms_result(last'.arg) ]_vars

\* C33: a deadline of a request that had concluded, or had been cancelled,
\* before its phase was sent again reports no timeout when it fires: the
\* timeout notification of the later request is left to the deadline of the
\* later request.
C33_StaleDeadlineReportsNothing ==
    [][ (last'.op = "timeout_check" /\ last'.phase \in SendPhases
            /\ stale_timers[last'.phase] > 0)
        => /\ last'.arg = "noop"
           /\ Count(emitted', Timeout(last'.phase)) = 0 ]_vars

\* C34: disconnect() was called while a stop request was pending, both stop
\* requests being in flight on the session: the stop response that arrives
\* first concludes the pending stop request, with exactly one of stop_success
\* and stop_failure.
C34_DisconnectKeepsPendingStop ==
    [][ (last'.op \in {"on_response", "response_dropped"}
            /\ inflight'["stop"] < inflight["stop"]
            /\ inflight["stop"] >= 2
            /\ concl["stop"] = "pending"
            /\ concl["disconnect"] = "pending"
            /\ handlers["stop"] = "disconnect")
        => Count(emitted', "stop_success") + Count(emitted', "stop_failure") = 1
    ]_vars

\* C35: at most one session is live, that is started and not stopped, and no
\* started session has lost its reference without stop() having been called
\* on it.
C35_AtMostOneLiveSession ==
    /\ orphaned_sessions = 0
    /\ orphaned_sessions + (IF session_started THEN 1 ELSE 0) <= 1

\* C36: when initialize_comms returns false after the session was created
\* (start() or send_sync_request() raised), no session is retained.
C36_FailedInitializeKeepsNoSession ==
    [][ (last'.op = "initialize_comms"
            /\ last'.arg \in {"start_raises", "send_raises"})
        => /\ ~initialize_comms_result(last'.arg)
           /\ ~comms_service' ]_vars

\* ------------------------------------------------------------------------
\* Behaviours in which every armed deadline elapses: the Qt event loop runs,
\* so a pending single-shot timer calls its timeout check in the end.
\* ------------------------------------------------------------------------
InitDeadlines ==
    /\ Constructed
    /\ config_choices = {DefaultConfig}
    /\ budget = MaxDeadlineCalls

SpecDeadlines == InitDeadlines /\ [][Next]_vars /\ WF_vars(TimerFires)

\* disconnect() was called with a session and its outcome is awaited, or its
\* send has just raised.
DisconnectCalled ==
    \/ concl["disconnect"] = "pending"
    \/ last.op = "disconnect" /\ last.arg = "send_raises"

\* The session is gone and the machine is back in RADIO_CONFIG_INPUT.
SessionTerminated == ~comms_service /\ current_state = "RADIO_CONFIG_INPUT"

\* The stop response handled for the disconnect carried success = false.
DisconnectRefused ==
    last.op = "on_response" /\ last.phase = "disconnect" /\ last.arg = "failure"

\* C37: after disconnect() was called with a session, the deadlines being
\* left to elapse, the session is gone and the machine is in
\* RADIO_CONFIG_INPUT in the end, unless a stop response with success = false
\* was handled for the disconnect.
C37_DisconnectTerminates ==
    DisconnectCalled ~> (SessionTerminated \/ DisconnectRefused)

\* C37 witness: the deadline of a disconnect elapsed with no response handled
\* and ended the session.
C37_Witness ==
    /\ last.op = "timeout_check"
    /\ last.phase = "disconnect"
    /\ last.arg = "timeout"
    /\ SessionTerminated

\* C38: the bridge emits one fatal_error for every state_error of its state
\* machine and one for every error packet it receives, and no other: among
\* the signals of a step there are as many fatal_error as state_error, plus
\* one when the step handled an error packet, and every state_error is
\* followed at once by the fatal_error that forwards it.
C38_StateErrorForwardedOnce ==
    /\ Count(emitted, "fatal_error")
         = Count(emitted, "state_error")
             + (IF last.op = "error_packet" THEN 1 ELSE 0)
    /\ \A i \in DOMAIN emitted :
           emitted[i] = "state_error"
               => i < Len(emitted) /\ emitted[i + 1] = "fatal_error"

\* C38 witness: initialize_comms had its guarded transition rejected, the
\* state_error reaching the observers as fatal_error.
C38_Witness ==
    /\ last.op = "initialize_comms"
    /\ emitted = << "state_error", "fatal_error" >>

\* C39: handle_error(msg) leaves the current state as it is and emits exactly
\* one state_error, carrying msg; it calls the error handler registered for
\* the current state once when there is one and no handler otherwise, and
\* does so whether or not that handler raises.
C39_HandleErrorEmitsOnce ==
    [][ last'.op = "handle_error"
        => /\ current_state' = current_state
           /\ Count(emitted', "state_error") = 1
           /\ error_msgs' = << last'.arg >>
           /\ invoked' = IF error_handlers[current_state] = NoHandler
                         THEN << >>
                         ELSE << [handler |-> error_handlers[current_state],
                                  state |-> current_state, signals |-> 0] >>
      ]_vars

\* C39 witness: handle_error called the error handler of the current state,
\* the handler raised, and state_error was emitted with the message.
C39_Witness ==
    /\ last.op = "handle_error"
    /\ Len(invoked) = 1 /\ invoked[1].handler = "e_raises"
    /\ Count(emitted, "state_error") = 1
    /\ error_msgs = << last.arg >>

====
